---------------------------- MODULE Spec2Model ----------------------------
(* A model of src/server.js: the POST /generate handler, commitFile and    *)
(* triggerWorkflow, run by several submissions at once against one         *)
(* repository provider.                                                    *)
(*                                                                         *)
(* JavaScript strings are sequences of UTF-16 code units (integers).       *)
(* Byte strings are sequences of integers in 0..255.  Fixed diagnostic     *)
(* texts that the code never inspects are TLA+ strings.                    *)
EXTENDS Integers, Sequences, FiniteSets, TLC

(***************************************************************************)
(* Bounds of the model.                                                    *)
(***************************************************************************)
\* number of submissions that may be in progress at once
NumReqs == 2
\* longest payload, in UTF-16 code units, of a submission that runs alone
MaxLen == 2
\* failures the provider injects while several submissions run at once
MaxFaults == 2

(***************************************************************************)
(* JavaScript values.                                                      *)
(***************************************************************************)
JSUndefined == [type |-> "undefined"]
JSNull == [type |-> "null"]
Str(s) == [type |-> "string", val |-> s]

\* JavaScript truthiness of undefined, null, strings and objects
Truthy(v) == v.type = "object" \/ (v.type = "string" /\ v.val # <<>>)

\* a || b
OrElse(a, b) == IF Truthy(a) THEN a ELSE b

(***************************************************************************)
(* Text helpers.                                                           *)
(***************************************************************************)
\* t occurs in s at position i
OccursAt(s, t, i) ==
    /\ i >= 1
    /\ i + Len(t) - 1 <= Len(s)
    /\ t = <<>> \/ s[i] = t[1]
    /\ SubSeq(s, i, i + Len(t) - 1) = t

\* t occurs in s within the positions lo..hi
OccursWithin(s, t, lo, hi) == \E i \in lo..(hi - Len(t) + 1) : OccursAt(s, t, i)

\* t occurs somewhere in s
Occurs(s, t) == OccursWithin(s, t, 1, Len(s))

(***************************************************************************)
(* Buffer.from(content): the UTF-8 encoding of a string of UTF-16 code     *)
(* units.  A surrogate pair is one code point of four bytes; a surrogate   *)
(* that is not part of a pair is encoded as U+FFFD (EF BF BD).             *)
(***************************************************************************)
IsHighSurrogate(c) == c >= 55296 /\ c <= 56319
IsLowSurrogate(c) == c >= 56320 /\ c <= 57343

Utf8OfCodePoint(cp) ==
    IF cp < 128 THEN <<cp>>
    ELSE IF cp < 2048 THEN <<192 + (cp \div 64), 128 + (cp % 64)>>
    ELSE IF cp < 65536
         THEN <<224 + (cp \div 4096), 128 + ((cp \div 64) % 64), 128 + (cp % 64)>>
    ELSE <<240 + (cp \div 262144), 128 + ((cp \div 4096) % 64),
           128 + ((cp \div 64) % 64), 128 + (cp % 64)>>

\* the concatenation of ss[lo] .. ss[hi], by halves; the midpoint is bound as
\* the member of a set, and so computed once, where an argument or a LET is
\* computed anew wherever it is used
RECURSIVE FlattenRange(_, _, _)
FlattenRange(ss, lo, hi) ==
    IF lo > hi THEN <<>>
    ELSE IF lo = hi THEN ss[lo]
    ELSE CHOOSE t \in {FlattenRange(ss, lo, h) \o FlattenRange(ss, h + 1, hi) :
                          h \in {(lo + hi) \div 2}} : TRUE

\* the concatenation of a sequence of sequences
Flatten(ss) == CHOOSE t \in {FlattenRange(v, 1, n) : v \in {ss}, n \in {Len(ss)}} : TRUE

\* the bytes that the code unit at position i of s contributes: a high
\* surrogate followed by a low one carries the pair, that low one nothing
Utf8OfUnit(s, i) ==
    LET c == s[i] IN
    IF IsHighSurrogate(c)
    THEN IF i < Len(s) /\ IsLowSurrogate(s[i + 1])
         THEN Utf8OfCodePoint(65536 + (c - 55296) * 1024 + (s[i + 1] - 56320))
         ELSE <<239, 191, 189>>
    ELSE IF IsLowSurrogate(c)
    THEN IF i > 1 /\ IsHighSurrogate(s[i - 1]) THEN <<>> ELSE <<239, 191, 189>>
    ELSE Utf8OfCodePoint(c)

Utf8Encode(s) ==
    CHOOSE b \in {Flatten([i \in 1..Len(u) |-> Utf8OfUnit(u, i)]) : u \in {s}} : TRUE

(***************************************************************************)
(* buffer.toString('base64'): three bytes become four characters of the    *)
(* base64 alphabet, the last group padded with '='.                        *)
(***************************************************************************)
Base64Char(i) ==
    IF i < 26 THEN 65 + i
    ELSE IF i < 52 THEN 97 + (i - 26)
    ELSE IF i < 62 THEN 48 + (i - 52)
    ELSE IF i = 62 THEN 43
    ELSE 47

Base64Pad == <<61>>

\* the byte at position i, zero past the end
ByteAt(b, i) == IF i <= Len(b) THEN b[i] ELSE 0

\* the four characters of the group of three bytes that starts at position i
Base64Group(b, i) ==
    LET x == ByteAt(b, i)
        y == ByteAt(b, i + 1)
        z == ByteAt(b, i + 2)
    IN  <<Base64Char(x \div 4), Base64Char((x % 4) * 16 + (y \div 16))>>
            \o (IF i + 1 <= Len(b)
                THEN <<Base64Char((y % 16) * 4 + (z \div 64))>> ELSE Base64Pad)
            \o (IF i + 2 <= Len(b) THEN <<Base64Char(z % 64)>> ELSE Base64Pad)

Base64Encode(b) ==
    CHOOSE t \in {Flatten([g \in 1..((Len(v) + 2) \div 3) |-> Base64Group(v, 3 * g - 2)]) :
                     v \in {b}} : TRUE

\* (Buffer.from(content, 'latin1'): one byte for each code unit)
ToBase64Latin1(content) == Base64Encode([i \in 1..Len(content) |-> content[i] % 256])

(***************************************************************************)
(* The provider's side of the transport encoding: it stores the bytes that *)
(* the base64 text stands for; a reader of the file decodes them as UTF-8. *)
(***************************************************************************)
Base64Index(c) ==
    IF c >= 65 /\ c <= 90 THEN c - 65
    ELSE IF c >= 97 /\ c <= 122 THEN c - 97 + 26
    ELSE IF c >= 48 /\ c <= 57 THEN c - 48 + 52
    ELSE IF c = 43 THEN 62
    ELSE 63

\* the bytes of the group of four characters that starts at position i
Base64Ungroup(t, i) ==
    LET a == Base64Index(t[i])
        b == Base64Index(t[i + 1])
        c == Base64Index(t[i + 2])
        d == Base64Index(t[i + 3])
    IN  IF <<t[i + 2]>> = Base64Pad
        THEN <<a * 4 + (b \div 16)>>
        ELSE IF <<t[i + 3]>> = Base64Pad
        THEN <<a * 4 + (b \div 16), (b % 16) * 16 + (c \div 4)>>
        ELSE <<a * 4 + (b \div 16), (b % 16) * 16 + (c \div 4), (c % 4) * 64 + d>>

Base64Decode(t) ==
    CHOOSE b \in {Flatten([g \in 1..(Len(v) \div 4) |-> Base64Ungroup(v, 4 * g - 3)]) :
                     v \in {t}} : TRUE

Utf16OfCodePoint(cp) ==
    IF cp < 65536 THEN <<cp>>
    ELSE <<55296 + ((cp - 65536) \div 1024), 56320 + ((cp - 65536) % 1024)>>

\* the byte at position i is a continuation byte (10xxxxxx)
IsContinuation(b, i) == i >= 1 /\ i <= Len(b) /\ b[i] >= 128 /\ b[i] < 192

\* the length of the sequence that the byte at position i leads, 0 if none
LeadLength(b, i) ==
    IF i < 1 \/ i > Len(b) THEN 0
    ELSE IF b[i] < 128 THEN 1
    ELSE IF b[i] >= 192 /\ b[i] < 224 /\ IsContinuation(b, i + 1) THEN 2
    ELSE IF b[i] >= 224 /\ b[i] < 240 /\ IsContinuation(b, i + 1)
            /\ IsContinuation(b, i + 2) THEN 3
    ELSE IF b[i] >= 240 /\ b[i] < 248 /\ IsContinuation(b, i + 1)
            /\ IsContinuation(b, i + 2) /\ IsContinuation(b, i + 3) THEN 4
    ELSE 0

\* the code units that the byte at position i starts: a lead byte carries its
\* code point, a continuation byte of a sequence nothing, any other byte U+FFFD
Utf8UnitsAt(b, i) ==
    LET x == b[i]
        n == LeadLength(b, i)
    IN  IF n = 1 THEN <<x>>
        ELSE IF n = 2 THEN <<(x - 192) * 64 + (b[i + 1] - 128)>>
        ELSE IF n = 3
        THEN <<(x - 224) * 4096 + (b[i + 1] - 128) * 64 + (b[i + 2] - 128)>>
        ELSE IF n = 4
        THEN Utf16OfCodePoint((x - 240) * 262144 + (b[i + 1] - 128) * 4096
                                  + (b[i + 2] - 128) * 64 + (b[i + 3] - 128))
        ELSE IF \E k \in 1..3 : LeadLength(b, i - k) > k THEN <<>>
        ELSE <<65533>>

Utf8Decode(b) ==
    CHOOSE s \in {Flatten([i \in 1..Len(v) |-> Utf8UnitsAt(v, i)]) : v \in {b}} : TRUE

(***************************************************************************)
(* Texts of the program.                                                   *)
(***************************************************************************)
TypeUrl == Str(<<117, 114, 108>>)
TypeHtml == Str(<<104, 116, 109, 108>>)

\* the template literal of the "url" branch, around ${content}
UrlDocHead ==
    <<60, 33, 68, 79, 67, 84, 89, 80, 69, 32, 104, 116, 109, 108, 62, 60, 104, 116, 109,
      108, 62, 60, 104, 101, 97, 100, 62, 60, 116, 105, 116, 108, 101, 62, 65, 112, 112,
      32, 102, 114, 111, 109, 32, 85, 82, 76, 60, 47, 116, 105, 116, 108, 101, 62, 60,
      47, 104, 101, 97, 100, 62, 60, 98, 111, 100, 121, 62, 60, 104, 49, 62, 67, 111,
      110, 116, 101, 110, 116, 32, 102, 114, 111, 109, 58, 32>>
UrlDocTail ==
    <<60, 47, 104, 49, 62, 60, 112, 62, 84, 104, 105, 115, 32, 99, 111, 110, 116, 101,
      110, 116, 32, 119, 97, 115, 32, 100, 121, 110, 97, 109, 105, 99, 97, 108, 108,
      121, 32, 102, 101, 116, 99, 104, 101, 100, 32, 97, 110, 100, 32, 98, 117, 105,
      108, 116, 32, 105, 110, 116, 111, 32, 116, 104, 101, 32, 73, 80, 65, 46, 60, 47,
      112, 62, 60, 47, 98, 111, 100, 121, 62, 60, 47, 104, 116, 109, 108, 62>>

\* (a payload that is escaped for markup: '<' becomes &lt;)
UrlDocumentEscaped(content) ==
    UrlDocHead
        \o Flatten([i \in 1..Len(content) |->
                       IF content[i] = 60 THEN <<38, 108, 116, 59>> ELSE <<content[i]>>])
        \o UrlDocTail
\* `...<h1>Content from: ${content}</h1>...`
UrlDocument(content) == UrlDocHead \o content \o UrlDocTail

\* `Automated build trigger: ${type === 'url' ? 'URL' : 'HTML'} update.`
CommitMessage(type) ==
    <<"Automated build trigger: ", IF type = TypeUrl THEN "URL" ELSE "HTML", " update.">>

\* (a path given by the kind of submission)
PathOfKind == "www/page.html"
TargetPath == "www/index.html"
TargetBranch == "main"
WorkflowId == "build.yml"

\* `https://github.com/${owner}/${repo}/actions`
GithubBase ==
    <<104, 116, 116, 112, 115, 58, 47, 47, 103, 105, 116, 104, 117, 98, 46, 99, 111,
      109, 47>>
ActionsSuffix == <<47, 97, 99, 116, 105, 111, 110, 115>>
\* (the address without the repository)
ActionsUrlOfOwner(owner, repo) == GithubBase \o owner.val \o ActionsSuffix
ActionsUrl(owner, repo) == GithubBase \o owner.val \o <<47>> \o repo.val \o ActionsSuffix

(***************************************************************************)
(* Responses: res.status(s).json(body); a key the body does not have is    *)
(* the empty sequence.                                                     *)
(***************************************************************************)
ErrorResponse(status, error) ==
    [status |-> status, error |-> error, message |-> <<>>, workflowUrl |-> <<>>]

NotInitializedResponse ==
    ErrorResponse(500, <<"GitHub client not initialized. Check GITHUB_TOKEN.">>)
MissingRepoResponse ==
    ErrorResponse(500, <<"Missing GITHUB_USERNAME or GITHUB_REPO env vars.">>)
InvalidTypeResponse ==
    ErrorResponse(400, <<"Invalid input type. Must be \"html\" or \"url\".">>)

\* (a catch that reports no cause)
GithubErrorWithoutCause(message) ==
    ErrorResponse(500, <<"GitHub API Error: ", "", ". Check token scope and repo path.">>)
\* the catch of the handler
GithubErrorResponse(message) ==
    ErrorResponse(500, <<"GitHub API Error: ", message,
                         ". Check token scope and repo path.">>)

FetchHistoryMessage == "Could not fetch file history from GitHub."

SuccessResponse(workflowUrl) ==
    [status |-> 200, error |-> <<>>,
     message |-> <<"Repository updated and workflow dispatched.">>,
     workflowUrl |-> workflowUrl]

(***************************************************************************)
(* The state.                                                              *)
(***************************************************************************)
VARIABLES
    GITHUB_TOKEN,     \* process.env.GITHUB_TOKEN, read once at startup
    GITHUB_USERNAME,  \* process.env.GITHUB_USERNAME
    GITHUB_REPO,      \* process.env.GITHUB_REPO
    octokit,          \* the client, or undefined when no token is set
    mode,             \* which submissions arrive: "serve" or "content"
    pc,               \* pc[r]: where the handler of submission r stands
    body,             \* body[r]: req.body, {type, content}
    fileContent,      \* fileContent[r]: the handler's local
    sha,              \* sha[r]: commitFile's local
    calls,            \* calls[r]: the external calls r issued, in order
    responses,        \* responses[r]: the responses sent for r, in order
    file,             \* provider: the file at www/index.html on main
    runs,             \* provider: runs[r], the workflow runs it started for r
    faults            \* provider: the failures it has injected

vars == <<GITHUB_TOKEN, GITHUB_USERNAME, GITHUB_REPO, octokit, mode, pc, body,
          fileContent, sha, calls, responses, file, runs, faults>>

config == <<GITHUB_TOKEN, GITHUB_USERNAME, GITHUB_REPO, octokit, mode>>
provider == <<file, runs, faults>>

Reqs == 1..NumReqs

(***************************************************************************)
(* Inputs.                                                                 *)
(***************************************************************************)
\* values an environment variable can have: unset, empty, set
EnvValues(v) == {JSUndefined, Str(<<>>), Str(v)}

\* the values of a complete environment: a token, the owner "oc", the repo "rp"
TokenValue == <<116>>
OwnerValue == <<111, 99>>
RepoValue == <<114, 112>>

\* discriminators: "url", "html", a missing field, "HTML" and ""
Types(m) ==
    IF m = "serve" THEN {TypeUrl, TypeHtml, JSUndefined}
    ELSE {TypeUrl, TypeHtml, JSUndefined, Str(<<72, 84, 77, 76>>), Str(<<>>)}

\* code units of payloads: '<', e-acute, a high and a low surrogate
PayloadUnits == {60, 233, 55357, 56832}

RECURSIVE StringsUpTo(_)
StringsUpTo(n) ==
    IF n = 0 THEN {<<>>}
    ELSE LET shorter == StringsUpTo(n - 1)
         IN  shorter \cup {Append(t, c) : t \in shorter, c \in PayloadUnits}

\* payloads of the submissions: one when several submissions run at once,
\* every string up to MaxLen when one runs alone
Payloads(m) ==
    IF m = "serve" THEN {<<60>>} ELSE StringsUpTo(MaxLen)

Submitters(m) == IF m = "serve" THEN Reqs ELSE {1}

(***************************************************************************)
(* The transport encoding of the file contents that a submission can       *)
(* derive is computed once, and looked up afterwards.                      *)
(***************************************************************************)
FileContents ==
    LET payloads == Payloads("serve") \cup Payloads("content")
    IN  payloads \cup {UrlDocument(c) : c \in payloads}

Base64OfContent == [c \in FileContents |-> Base64Encode(Utf8Encode(c))]

\* Buffer.from(content).toString('base64')
ToBase64(content) ==
    IF content \in FileContents THEN Base64OfContent[content]
    ELSE Base64Encode(Utf8Encode(content))

BytesOfBase64 == [t \in {Base64OfContent[c] : c \in FileContents} |-> Base64Decode(t)]

\* the bytes that the provider takes from the content of a write
DecodedContent(t) ==
    IF t \in DOMAIN BytesOfBase64 THEN BytesOfBase64[t] ELSE Base64Decode(t)

(***************************************************************************)
(* The provider (GitHub), as the calls of the program observe it.          *)
(***************************************************************************)
NoFile == [exists |-> FALSE, bytes |-> <<>>]
FileOf(bytes) == [exists |-> TRUE, bytes |-> bytes]

\* the blob SHA names the content: it is taken of `blob <length>` and the
\* bytes, and the hash is modelled as collision free
BlobSha(bytes) == Str(<<Len(bytes)>> \o bytes)

Pending == [status |-> 0, sha |-> JSNull, message |-> ""]
Reply(status, s, message) == [status |-> status, sha |-> s, message |-> message]

\* the content that a blob SHA names
BlobOf(s) == Tail(s.val)

\* failures the provider can answer any call with
ProviderErrors(m) ==
    IF m = "serve" THEN {Reply(401, JSNull, "Bad credentials")}
    ELSE {Reply(401, JSNull, "Bad credentials"), Reply(404, JSNull, "Not Found")}

\* GetFileRevision
ReadReply(f) ==
    IF f.exists THEN Reply(200, BlobSha(f.bytes), "") ELSE Reply(404, JSNull, "Not Found")

\* CreateOrUpdateFile: the optimistic-concurrency check; the answer to an
\* accepted write names the blob that was stored
WriteReply(f, params) ==
    LET stored == BlobSha(DecodedContent(params.content)) IN
    IF f.exists
    THEN IF params.sha.type = "undefined"
         THEN Reply(422, JSNull, "sha wasn't supplied")
         ELSE IF params.sha = BlobSha(f.bytes)
         THEN Reply(200, stored, "")
         ELSE Reply(409, JSNull, "sha does not match")
    ELSE IF params.sha.type = "undefined"
         THEN Reply(201, stored, "")
         ELSE Reply(409, JSNull, "sha does not match")

(***************************************************************************)
(* Startup: lines 8-25.                                                    *)
(***************************************************************************)
\* if (GITHUB_TOKEN) octokit = new Octokit(...)
NewOctokit(token) == IF Truthy(token) THEN [type |-> "object"] ELSE JSUndefined

InitialFiles == {NoFile, FileOf(Utf8Encode(<<60>>))}

\* the environments of a deployment: any when one submission runs alone, the
\* complete one when several run at once
Environments(m, v) == IF m = "serve" THEN {Str(v)} ELSE EnvValues(v)

Init ==
    /\ mode \in {"serve", "content"}
    /\ GITHUB_TOKEN \in Environments(mode, TokenValue)
    /\ GITHUB_USERNAME \in Environments(mode, OwnerValue)
    /\ GITHUB_REPO \in Environments(mode, RepoValue)
    /\ octokit = NewOctokit(GITHUB_TOKEN)
    /\ pc = [r \in Reqs |-> "idle"]
    /\ body = [r \in Reqs |-> [type |-> JSUndefined, content |-> <<>>]]
    /\ fileContent = [r \in Reqs |-> <<>>]
    /\ sha = [r \in Reqs |-> JSNull]
    /\ calls = [r \in Reqs |-> <<>>]
    /\ responses = [r \in Reqs |-> <<>>]
    /\ file \in InitialFiles
    /\ runs = [r \in Reqs |-> 0]
    /\ faults = 0

(***************************************************************************)
(* The handler's decisions.                                                *)
(***************************************************************************)
\* if (!octokit)
NotInitialized == ~Truthy(octokit)

\* (&& in place of ||)
MissingBoth == ~Truthy(GITHUB_USERNAME) /\ ~Truthy(GITHUB_REPO)
\* if (!GITHUB_USERNAME || !GITHUB_REPO)
MissingRepo == ~Truthy(GITHUB_USERNAME) \/ ~Truthy(GITHUB_REPO)

\* type === 'url', type === 'html'
IsUrl(type) == type = TypeUrl
\* (a plain else in place of else if (type === 'html'))
IsHtmlLoose(type) == type # TypeUrl
IsHtml(type) == type = TypeHtml

\* the if / else if / else over type: is there a file content to commit?
Recognized(type) == IsUrl(type) \/ IsHtml(type)

\* fileContent after the branches over type
DerivedContent(type, content) ==
    IF IsUrl(type) THEN UrlDocument(content) ELSE content

\* (a client that throws on a server error alone)
ThrowsOnServerError(result) == result.status >= 500
\* an awaited call throws when the provider answers with an error status
Throws(result) == result.status >= 400

\* await commitFile(...) and await triggerWorkflow() throw what the call threw
\* (a rejection that is swallowed)
RejectionSwallowed(result) == FALSE
CommitFileRejects(result) == Throws(result)
\* (a rejection of the dispatch that is swallowed)
DispatchRejectionSwallowed(result) == FALSE
TriggerRejects(result) == Throws(result)

\* (a catch without the test of the status)
ReadAlwaysFatal(result) == Throws(result)
\* (a catch that swallows every error)
ReadNeverFatal(result) == FALSE
\* catch (error) { if (error.status !== 404) throw ... }
ReadIsFatal(result) == Throws(result) /\ result.status # 404

\* (the handle read is not kept)
ShaForgotten(result) == JSNull
\* let sha = null; try { sha = fileData.sha } catch { ... }
ShaAfterRead(result) == IF Throws(result) THEN JSNull ELSE result.sha

\* (sha: undefined)
ShaOmitted(s) == JSUndefined
\* sha: sha || undefined
ShaParam(s) == OrElse(s, JSUndefined)

GetContentParams ==
    [owner |-> GITHUB_USERNAME, repo |-> GITHUB_REPO, path |-> TargetPath]

CommitParams(content, message, s) ==
    [owner |-> GITHUB_USERNAME, repo |-> GITHUB_REPO, path |-> TargetPath,
     message |-> message, content |-> ToBase64(content), sha |-> ShaParam(s),
     branch |-> TargetBranch]

DispatchParams ==
    [owner |-> GITHUB_USERNAME, repo |-> GITHUB_REPO, workflow_id |-> WorkflowId,
     ref |-> TargetBranch]

\* an external call leaves the process
Issue(cs, op, params) ==
    Append(cs, [op |-> op, params |-> params, state |-> "sent", result |-> Pending])

\* the call a handler is suspended on
Awaited(r) == calls[r][Len(calls[r])]

\* (a call that is not awaited)
NotAwaited(call) == TRUE
\* await: the continuation runs once the awaited call has settled
Settled(call) == call.state = "replied"

\* (a response that is sent without `return`, and sent again)
RespondTwice(r, response) ==
    /\ responses' = [responses EXCEPT ![r] = Append(Append(@, response), response)]
    /\ pc' = [pc EXCEPT ![r] = "done"]
Respond(r, response) ==
    /\ responses' = [responses EXCEPT ![r] = Append(@, response)]
    /\ pc' = [pc EXCEPT ![r] = "done"]

(***************************************************************************)
(* app.post('/generate'): from the arrival of the request to the first     *)
(* await, which is the read in commitFile.                                 *)
(***************************************************************************)
Generate(r) ==
    /\ pc[r] = "idle"
    /\ r \in Submitters(mode)
    /\ \E type \in Types(mode), content \in Payloads(mode) :
        /\ body' = [body EXCEPT ![r] = [type |-> type, content |-> content]]
        /\ IF NotInitialized
           THEN /\ Respond(r, NotInitializedResponse)
                /\ UNCHANGED <<fileContent, calls>>
           ELSE IF MissingRepo
           THEN /\ Respond(r, MissingRepoResponse)
                /\ UNCHANGED <<fileContent, calls>>
           ELSE IF ~Recognized(type)
           THEN /\ Respond(r, InvalidTypeResponse)
                /\ UNCHANGED <<fileContent, calls>>
           ELSE /\ fileContent' = [fileContent EXCEPT ![r] = DerivedContent(type, content)]
                /\ calls' = [calls EXCEPT ![r] = Issue(@, "getContent", GetContentParams)]
                /\ pc' = [pc EXCEPT ![r] = "read"]
                /\ UNCHANGED responses
    /\ UNCHANGED <<config, sha, provider>>

(***************************************************************************)
(* commitFile after the read: lines 43-64, up to the await of the write.   *)
(***************************************************************************)
ReadResume(r) ==
    /\ pc[r] = "read"
    /\ Settled(Awaited(r))
    /\ LET result == Awaited(r).result IN
       IF ReadIsFatal(result)
       THEN /\ Respond(r, GithubErrorResponse(FetchHistoryMessage))
            /\ UNCHANGED <<sha, calls>>
       ELSE /\ sha' = [sha EXCEPT ![r] = ShaAfterRead(result)]
            /\ calls' = [calls EXCEPT ![r] =
                   Issue(@, "createOrUpdateFileContents",
                         CommitParams(fileContent[r], CommitMessage(body[r].type),
                                      sha'[r]))]
            /\ pc' = [pc EXCEPT ![r] = "write"]
            /\ UNCHANGED responses
    /\ UNCHANGED <<config, body, fileContent, provider>>

(***************************************************************************)
(* The handler after commitFile: lines 126-130 and 72-76, up to the await  *)
(* of the dispatch; or the catch.                                          *)
(***************************************************************************)
WriteResume(r) ==
    /\ pc[r] = "write"
    /\ Settled(Awaited(r))
    /\ LET result == Awaited(r).result IN
       IF CommitFileRejects(result)
       THEN /\ Respond(r, GithubErrorResponse(result.message))
            /\ UNCHANGED calls
       ELSE /\ calls' = [calls EXCEPT ![r] =
                   Issue(@, "createWorkflowDispatch", DispatchParams)]
            /\ pc' = [pc EXCEPT ![r] = "dispatch"]
            /\ UNCHANGED responses
    /\ UNCHANGED <<config, body, fileContent, sha, provider>>

(***************************************************************************)
(* The handler after triggerWorkflow: lines 86 and 131-137; or the catch.  *)
(***************************************************************************)
DispatchResume(r) ==
    /\ pc[r] = "dispatch"
    /\ Settled(Awaited(r))
    /\ LET result == Awaited(r).result IN
       IF TriggerRejects(result)
       THEN Respond(r, GithubErrorResponse(result.message))
       ELSE Respond(r, SuccessResponse(ActionsUrl(GITHUB_USERNAME, GITHUB_REPO)))
    /\ UNCHANGED <<config, body, fileContent, sha, calls, provider>>

(***************************************************************************)
(* The provider answers a call that is in flight.                          *)
(***************************************************************************)
Answer(r, i, result) ==
    calls' = [calls EXCEPT ![r][i].state = "replied", ![r][i].result = result]

InFlight(r, i, op) ==
    /\ i \in 1..Len(calls[r])
    /\ calls[r][i].state = "sent"
    /\ calls[r][i].op = op

ProviderRead(r) ==
    /\ \E i \in 1..Len(calls[r]) :
        /\ InFlight(r, i, "getContent")
        /\ Answer(r, i, ReadReply(file))
    /\ UNCHANGED <<config, pc, body, fileContent, sha, responses, provider>>

ProviderWrite(r) ==
    /\ \E i \in 1..Len(calls[r]) :
        /\ InFlight(r, i, "createOrUpdateFileContents")
        /\ LET params == calls[r][i].params
               result == WriteReply(file, params)
           IN  /\ Answer(r, i, result)
               /\ file' = IF Throws(result) THEN file
                          ELSE FileOf(DecodedContent(params.content))
    /\ UNCHANGED <<config, pc, body, fileContent, sha, responses, runs, faults>>

ProviderDispatch(r) ==
    /\ \E i \in 1..Len(calls[r]) :
        /\ InFlight(r, i, "createWorkflowDispatch")
        /\ Answer(r, i, Reply(204, JSNull, ""))
    /\ runs' = [runs EXCEPT ![r] = @ + 1]
    /\ UNCHANGED <<config, pc, body, fileContent, sha, responses, file, faults>>

ProviderFail(r) ==
    /\ mode = "serve" => faults < MaxFaults
    /\ faults' = faults + 1
    /\ \E i \in 1..Len(calls[r]), e \in ProviderErrors(mode) :
        /\ calls[r][i].state = "sent"
        /\ Answer(r, i, e)
    /\ UNCHANGED <<config, pc, body, fileContent, sha, responses, file, runs>>

Next ==
    \E r \in Reqs :
        \/ Generate(r)
        \/ ReadResume(r)
        \/ WriteResume(r)
        \/ DispatchResume(r)
        \/ ProviderRead(r)
        \/ ProviderWrite(r)
        \/ ProviderDispatch(r)
        \/ ProviderFail(r)

Spec == Init /\ [][Next]_vars

\* one submission alone, with every payload, discriminator and environment
InitContent == Init /\ mode = "content"
SpecContent == InitContent /\ [][Next]_vars

\* a handler that can resume does resume (the event loop runs every
\* continuation that is ready), and a call that was issued returns, with an
\* answer or with an error; that a request arrives is never promised
Fairness ==
    \A r \in Reqs :
        /\ WF_vars(ReadResume(r))
        /\ WF_vars(WriteResume(r))
        /\ WF_vars(DispatchResume(r))
        /\ WF_vars(ProviderRead(r) \/ ProviderWrite(r) \/ ProviderDispatch(r)
                       \/ ProviderFail(r))

SpecFair == Spec /\ Fairness

(***************************************************************************)
(* Vocabulary of the properties.                                           *)
(***************************************************************************)
Submitted(r) == pc[r] # "idle"
Done(r) == pc[r] = "done"

\* the credential and the repository identity are all set
Configured ==
    \A v \in {GITHUB_TOKEN, GITHUB_USERNAME, GITHUB_REPO} :
        v.type = "string" /\ Len(v.val) > 0

HasCall(r, i) == i >= 1 /\ i <= Len(calls[r])
Answered(r, i) == HasCall(r, i) /\ calls[r][i].state = "replied"
AnsweredWith(r, i, statuses) == Answered(r, i) /\ calls[r][i].result.status \in statuses
Succeeded(r, i) == Answered(r, i) /\ calls[r][i].result.status \in {200, 201, 204}
Failed(r, i) == Answered(r, i) /\ calls[r][i].result.status \in {401, 404, 409, 422}
Ops(r) == [i \in 1..Len(calls[r]) |-> calls[r][i].op]
Issued(r, op) == \E i \in 1..Len(calls[r]) : calls[r][i].op = op

IsNotConfigured(response) ==
    /\ response.status = 500
    /\ response.error \in {<<"GitHub client not initialized. Check GITHUB_TOKEN.">>,
                           <<"Missing GITHUB_USERNAME or GITHUB_REPO env vars.">>}
IsInvalidInput(response) ==
    /\ response.status = 400
    /\ response.error = <<"Invalid input type. Must be \"html\" or \"url\".">>
IsRepositoryUnavailable(response) ==
    /\ response.status = 500
    /\ response.error[2] = "Could not fetch file history from GitHub."
IsFailure(response) == response.status \in {400, 500} /\ response.workflowUrl = <<>>

(***************************************************************************)
(* C1 as stated: a submission whose type is neither "html" nor "url"       *)
(* issues no external call and is answered InvalidInput.                   *)
(***************************************************************************)
C1_AlwaysInvalidInput ==
    \A r \in Reqs :
        (Submitted(r) /\ body[r].type \notin {TypeUrl, TypeHtml})
            => /\ calls[r] = <<>>
               /\ Len(responses[r]) = 1
               /\ IsInvalidInput(responses[r][1])

\* C1, amended: a submission whose type is neither "html" nor "url" issues no
\* external call and is answered at once with a failure: InvalidInput when
\* the configuration is complete, NotConfigured when it is not.
C1_UnrecognizedTypeNoCalls ==
    \A r \in Reqs :
        (Submitted(r) /\ body[r].type \notin {TypeUrl, TypeHtml})
            => /\ calls[r] = <<>>
               /\ Done(r)
               /\ Len(responses[r]) = 1
               /\ IF Configured THEN IsInvalidInput(responses[r][1])
                  ELSE IsNotConfigured(responses[r][1])

C1_Witness ==
    \E r \in Reqs :
        /\ Configured
        /\ Done(r)
        /\ body[r].type = Str(<<72, 84, 77, 76>>)
        /\ IsInvalidInput(responses[r][1])

(***************************************************************************)
(* C2: the dispatch is issued only after the write of the same submission  *)
(* has succeeded; after a failed read or a failed write it is not issued.  *)
(***************************************************************************)
C2_DispatchOnlyAfterWrite ==
    \A r \in Reqs : \A i \in 1..Len(calls[r]) :
        calls[r][i].op = "createWorkflowDispatch"
            => /\ \E j \in 1..(i - 1) :
                    /\ calls[r][j].op = "createOrUpdateFileContents"
                    /\ Succeeded(r, j)
               /\ \A j \in 1..(i - 1) :
                    calls[r][j].op = "getContent"
                        => AnsweredWith(r, j, {200, 404})

C2_Witness ==
    \E r, q \in Reqs :
        /\ Issued(r, "createWorkflowDispatch")
        /\ Done(q)
        /\ Failed(q, 2)
        /\ ~Issued(q, "createWorkflowDispatch")

(***************************************************************************)
(* C3: with the credential, the owner or the repository name missing,      *)
(* every submission is answered NotConfigured and issues no external call. *)
(***************************************************************************)
C3_NotConfiguredNoCalls ==
    ~Configured =>
        \A r \in Reqs :
            /\ calls[r] = <<>>
            /\ Submitted(r)
                => /\ Done(r)
                   /\ Len(responses[r]) = 1
                   /\ IsNotConfigured(responses[r][1])

C3_Witness ==
    \E r \in Reqs :
        /\ Truthy(GITHUB_TOKEN)
        /\ Truthy(GITHUB_USERNAME)
        /\ ~Truthy(GITHUB_REPO)
        /\ Done(r)
        /\ body[r].type = TypeHtml
        /\ IsNotConfigured(responses[r][1])

(***************************************************************************)
(* C4: the write carries no revision handle when the submission's read     *)
(* found no file, and the handle of the submission's own read otherwise.   *)
(***************************************************************************)
C4_WriteCarriesReadHandle ==
    \A r \in Reqs : \A i \in 1..Len(calls[r]) :
        calls[r][i].op = "createOrUpdateFileContents"
            => /\ i > 1
               /\ calls[r][i - 1].op = "getContent"
               /\ AnsweredWith(r, i - 1, {404})
                    => calls[r][i].params.sha = JSUndefined
               /\ AnsweredWith(r, i - 1, {200})
                    => calls[r][i].params.sha = calls[r][i - 1].result.sha

C4_Witness ==
    \E r, q \in Reqs :
        /\ AnsweredWith(r, 1, {404})
        /\ HasCall(r, 2)
        /\ calls[r][2].params.sha = JSUndefined
        /\ AnsweredWith(q, 1, {200})
        /\ HasCall(q, 2)
        /\ calls[q][2].params.sha = BlobSha(Utf8Encode(fileContent[r]))

(***************************************************************************)
(* C5: a read that fails with anything but not-found ends the submission   *)
(* with RepositoryUnavailable and without a write or a dispatch; after a   *)
(* not-found the write is issued.                                          *)
(***************************************************************************)
C5_ReadFailureAborts ==
    \A r \in Reqs :
        /\ (AnsweredWith(r, 1, {401, 409, 422}) /\ pc[r] # "read")
            => /\ Len(calls[r]) = 1
               /\ Done(r)
               /\ Len(responses[r]) = 1
               /\ IsFailure(responses[r][1])
               /\ IsRepositoryUnavailable(responses[r][1])
        /\ (AnsweredWith(r, 1, {404}) /\ pc[r] # "read")
            => /\ HasCall(r, 2)
               /\ calls[r][2].op = "createOrUpdateFileContents"

C5_Witness ==
    \E r, q \in Reqs :
        /\ AnsweredWith(r, 1, {401})
        /\ Done(r)
        /\ IsRepositoryUnavailable(responses[r][1])
        /\ AnsweredWith(q, 1, {404})
        /\ Succeeded(q, 2)

(***************************************************************************)
(* C6: no retry.  A submission issues each of the three calls at most      *)
(* once, and a call that failed (a read that found no file is no failure)  *)
(* is the last call of its submission.                                     *)
(***************************************************************************)
C6_NoRetry ==
    \A r \in Reqs :
        /\ Len(calls[r]) <= 3
        /\ \A i, j \in 1..Len(calls[r]) : calls[r][i].op = calls[r][j].op => i = j
        /\ \A i \in 1..Len(calls[r]) :
            (/\ Failed(r, i)
             /\ ~(calls[r][i].op = "getContent" /\ AnsweredWith(r, i, {404})))
                => i = Len(calls[r])

C6_Witness ==
    \E r, q \in Reqs :
        /\ Done(r)
        /\ Len(calls[r]) = 2
        /\ AnsweredWith(r, 2, {409})
        /\ Done(q)
        /\ Len(calls[q]) = 3
        /\ AnsweredWith(q, 3, {401})

(***************************************************************************)
(* C7: the calls of a submission are issued in the order read, write,      *)
(* dispatch, and every call but the latest has been answered: none is      *)
(* issued while an earlier one is outstanding.                             *)
(***************************************************************************)
C7_StrictSequence ==
    \A r \in Reqs :
        /\ Len(calls[r]) <= 3
        /\ Ops(r) = SubSeq(<<"getContent", "createOrUpdateFileContents",
                             "createWorkflowDispatch">>, 1, Len(calls[r]))
        /\ \A i \in 1..(Len(calls[r]) - 1) : calls[r][i].state = "replied"

C7_Witness ==
    \E r \in Reqs :
        /\ Len(calls[r]) = 3
        /\ calls[r][3].op = "createWorkflowDispatch"
        /\ calls[r][3].state = "sent"
        /\ Succeeded(r, 2)

(***************************************************************************)
(* C8: when the write succeeded and the dispatch failed, the response is a *)
(* failure, yet the provider stored the submission's content, and nothing  *)
(* takes it back: the file holds it, or what a later accepted write of     *)
(* another submission put there.                                           *)
(***************************************************************************)
C8_FailureKeepsWrite ==
    \A r \in Reqs :
        (/\ Done(r)
         /\ HasCall(r, 3)
         /\ calls[r][2].op = "createOrUpdateFileContents"
         /\ Succeeded(r, 2)
         /\ calls[r][3].op = "createWorkflowDispatch"
         /\ Failed(r, 3))
            => /\ Len(responses[r]) = 1
               /\ IsFailure(responses[r][1])
               /\ Len(calls[r]) = 3
               /\ BlobOf(calls[r][2].result.sha) = Utf8Encode(fileContent[r])
               /\ file.exists
               /\ \/ file.bytes = Utf8Encode(fileContent[r])
                  \/ \E q \in Reqs \ {r} :
                        /\ Succeeded(q, 2)
                        /\ file.bytes = Utf8Encode(fileContent[q])

C8_Witness ==
    \E r \in Reqs :
        /\ Done(r)
        /\ Succeeded(r, 2)
        /\ Failed(r, 3)
        /\ IsFailure(responses[r][1])
        /\ body[r].type = TypeUrl
        /\ file = FileOf(Utf8Encode(fileContent[r]))

(***************************************************************************)
(* C9 as stated: the content derived from a "url" submission is a markup   *)
(* document with a script whose body assigns the payload to the location.  *)
(***************************************************************************)
ScriptOpen == <<60, 115, 99, 114, 105, 112, 116>>
ScriptClose == <<60, 47, 115, 99, 114, 105, 112, 116, 62>>
LocationWord == <<108, 111, 99, 97, 116, 105, 111, 110>>

\* doc has a script element in whose body `location` is followed by target
RedirectsTo(doc, target) ==
    \E i \in 1..Len(doc) :
        /\ OccursAt(doc, ScriptOpen, i)
        /\ \E j \in (i + 1)..Len(doc) :
            /\ OccursAt(doc, ScriptClose, j)
            /\ \E k \in i..j :
                /\ OccursAt(doc, LocationWord, k)
                /\ \E l \in k..j :
                    /\ OccursAt(doc, target, l)
                    /\ l + Len(target) <= j

C9_RedirectDocument ==
    \A r \in Reqs :
        (Issued(r, "getContent") /\ body[r].type = TypeUrl)
            => RedirectsTo(fileContent[r], body[r].content)

DocType == <<60, 33, 68, 79, 67, 84, 89, 80, 69, 32, 104, 116, 109, 108, 62>>
HeadingOpen ==
    <<60, 104, 49, 62, 67, 111, 110, 116, 101, 110, 116, 32, 102, 114, 111, 109, 58, 32>>
HeadingClose == <<60, 47, 104, 49, 62>>
DocEnd == <<60, 47, 104, 116, 109, 108, 62>>

\* C9, amended: the content derived from a "url" submission is a fixed
\* placeholder document that starts with the doctype and ends with </html>,
\* whose h1 heading reads `Content from: ` followed by the payload, code unit
\* for code unit, with no escaping; outside the payload it has no script, so
\* no script body of it holds the payload: it redirects nowhere.
C9_UrlPlaceholderDocument ==
    \A r \in Reqs :
        (Issued(r, "getContent") /\ body[r].type = TypeUrl)
            => LET doc == fileContent[r]
                   payload == body[r].content
               IN  /\ OccursAt(doc, DocType, 1)
                   /\ OccursAt(doc, DocEnd, Len(doc) - Len(DocEnd) + 1)
                   /\ \E i \in 1..Len(doc) :
                        LET from == i + Len(HeadingOpen)
                            to == from + Len(payload)
                        IN  /\ OccursAt(doc, HeadingOpen, i)
                            /\ OccursAt(doc, payload, from)
                            /\ OccursAt(doc, HeadingClose, to)
                            /\ ~OccursWithin(doc, ScriptOpen, 1, from - 1)
                            /\ ~OccursWithin(doc, ScriptOpen, to, Len(doc))

C9_Witness ==
    \E r \in Reqs :
        /\ body[r].type = TypeUrl
        /\ body[r].content = <<60, 55357>>
        /\ Succeeded(r, 2)
        /\ Occurs(fileContent[r], HeadingOpen \o <<60, 55357>> \o HeadingClose)

(***************************************************************************)
(* C10 as stated: for an "html" submission the content handed to the write *)
(* is the payload, and after a successful write the stored file decodes to *)
(* the payload.                                                            *)
(***************************************************************************)
C10_StoredDecodesToPayload ==
    \A r \in Reqs :
        (Issued(r, "getContent") /\ body[r].type = TypeHtml)
            => /\ fileContent[r] = body[r].content
               /\ (HasCall(r, 2) /\ Succeeded(r, 2))
                    => Utf8Decode(BlobOf(calls[r][2].result.sha)) = body[r].content

\* the code unit at position i of s is a surrogate without its partner
Unpaired(s, i) ==
    \/ s[i] \in 55296..56319 /\ ~(i < Len(s) /\ s[i + 1] \in 56320..57343)
    \/ s[i] \in 56320..57343 /\ ~(i > 1 /\ s[i - 1] \in 55296..56319)

WellFormed(s) == \A i \in 1..Len(s) : ~Unpaired(s, i)

\* s with U+FFFD in place of every unpaired surrogate
Scrubbed(s) == [i \in 1..Len(s) |-> IF Unpaired(s, i) THEN 65533 ELSE s[i]]

\* C10, amended: for an "html" submission the content handed to commitFile
\* is the payload, and after a successful write the stored file decodes to
\* the payload with U+FFFD in place of every unpaired surrogate: to the
\* payload itself exactly when the payload is well-formed UTF-16.
C10_StoredDecodesToScrubbedPayload ==
    \A r \in Reqs :
        (Issued(r, "getContent") /\ body[r].type = TypeHtml)
            => /\ fileContent[r] = body[r].content
               /\ (HasCall(r, 2) /\ Succeeded(r, 2))
                    => LET text == Utf8Decode(BlobOf(calls[r][2].result.sha))
                       IN  /\ text = Scrubbed(body[r].content)
                           /\ (text = body[r].content) <=> WellFormed(body[r].content)

C10_Witness ==
    \E r \in Reqs :
        /\ body[r].type = TypeHtml
        /\ body[r].content = <<55357, 56832>>
        /\ Succeeded(r, 2)
        /\ Utf8Decode(file.bytes) = <<55357, 56832>>

(***************************************************************************)
(* C11 as stated: a failure response tells the stage that failed, so the   *)
(* response to a failed write differs from the response to a failed        *)
(* dispatch.                                                               *)
(***************************************************************************)
\* the stage at which submission r failed, read off its calls
FailedStage(r) ==
    IF ~Configured THEN "configuration"
    ELSE IF calls[r] = <<>> THEN "input"
    ELSE IF Len(calls[r]) = 1 /\ Failed(r, 1) THEN "read"
    ELSE IF Len(calls[r]) = 2 /\ Failed(r, 2) THEN "write"
    ELSE IF Len(calls[r]) = 3 /\ Failed(r, 3) THEN "dispatch"
    ELSE "none"

C11_WriteAndDispatchDistinct ==
    \A r, q \in Reqs :
        (/\ Done(r)
         /\ Done(q)
         /\ FailedStage(r) = "write"
         /\ FailedStage(q) = "dispatch")
            => responses[r][1] # responses[q][1]

\* what a client can read off a failure response
ReportedStage(response) ==
    IF response.status = 200 THEN "none"
    ELSE IF IsInvalidInput(response) THEN "input"
    ELSE IF IsNotConfigured(response) THEN "configuration"
    ELSE IF IsRepositoryUnavailable(response) THEN "read"
    ELSE "write or dispatch"

\* C11, amended: a failure response tells input validation, configuration
\* and the repository read apart from each other and from the rest; a failed
\* write and a failed dispatch are both reported as the same 500 `GitHub API
\* Error` that carries the provider's message, so they are reported the same
\* way exactly when the provider gave both the same message.
C11_StageUpToWriteOrDispatch ==
    \A r \in Reqs :
        Done(r) =>
            /\ Len(responses[r]) = 1
            /\ ReportedStage(responses[r][1]) =
                    IF FailedStage(r) \in {"write", "dispatch"}
                    THEN "write or dispatch" ELSE FailedStage(r)
            /\ FailedStage(r) \in {"write", "dispatch"}
                => responses[r][1].error[2] = calls[r][Len(calls[r])].result.message
            /\ \A q \in Reqs :
                (/\ Done(q)
                 /\ FailedStage(r) = "write"
                 /\ FailedStage(q) = "dispatch")
                    => (responses[r][1] = responses[q][1])
                           <=> (calls[r][2].result.message = calls[q][3].result.message)

C11_Witness ==
    \E r, q \in Reqs :
        /\ Done(r)
        /\ Done(q)
        /\ FailedStage(r) = "write"
        /\ FailedStage(q) = "dispatch"
        /\ AnsweredWith(r, 2, {401})
        /\ AnsweredWith(q, 3, {401})
        /\ responses[r][1] = responses[q][1]

(***************************************************************************)
(* C12: every write call names the path www/index.html and the branch      *)
(* main of the configured repository, and no other call writes; the        *)
(* provider's file changes only when it accepts a write, and then to the   *)
(* bytes of that submission's derived content, whatever it held before.    *)
(***************************************************************************)
WritesNameTheTarget ==
    \A r \in Reqs : \A i \in 1..Len(calls[r]) :
        /\ calls[r][i].op \in {"getContent", "createOrUpdateFileContents",
                               "createWorkflowDispatch"}
        /\ calls[r][i].op = "createOrUpdateFileContents"
            => /\ calls[r][i].params.path = "www/index.html"
               /\ calls[r][i].params.branch = "main"
               /\ calls[r][i].params.owner = GITHUB_USERNAME
               /\ calls[r][i].params.repo = GITHUB_REPO

\* the step in which the provider accepts the write of r
WriteAccepted(r) == ~Succeeded(r, 2) /\ Succeeded(r, 2)'

WriteReplacesFile ==
    /\ \A r \in Reqs :
        WriteAccepted(r) => file' = FileOf(Utf8Encode(fileContent[r]))
    /\ file' # file => \E r \in Reqs : WriteAccepted(r)

C12_OneFileWhollyReplaced == [][WritesNameTheTarget' /\ WriteReplacesFile]_vars

\* a file that held something else holds the content of an update
C12_Witness ==
    \E r \in Reqs :
        /\ AnsweredWith(r, 1, {200})
        /\ AnsweredWith(r, 2, {200})
        /\ calls[r][2].params.sha # BlobSha(Utf8Encode(fileContent[r]))
        /\ file = FileOf(Utf8Encode(fileContent[r]))

(***************************************************************************)
(* C13: when the write and the dispatch both succeeded the response is a   *)
(* success whose workflowUrl is not empty, holds the configured owner and  *)
(* repository name, and is https://github.com/<owner>/<repo>/actions: the  *)
(* same for every successful submission, whatever its payload or run.      *)
(***************************************************************************)
WroteAndDispatched(r) ==
    /\ Done(r)
    /\ HasCall(r, 3)
    /\ calls[r][2].op = "createOrUpdateFileContents"
    /\ Succeeded(r, 2)
    /\ calls[r][3].op = "createWorkflowDispatch"
    /\ Succeeded(r, 3)

ReadThrough(r) ==
    /\ HasCall(r, 1)
    /\ Settled(calls[r][1])
    /\ ~ReadIsFatal(calls[r][1].result)

SameRead(r, q) ==
    /\ ReadThrough(r)
    /\ ReadThrough(q)
    /\ calls[r][1].result = calls[q][1].result

WriteUnhandled(r) == HasCall(r, 2) => ~Settled(calls[r][2])

BothReadBeforeEitherWrite(r, q) ==
    /\ r # q
    /\ SameRead(r, q)
    /\ WriteUnhandled(r)
    /\ WriteUnhandled(q)

BothWritesAccepted(r, q) == Succeeded(r, 2) /\ Succeeded(q, 2)

\* stated of the first two submissions
C14_AtMostOneWriteAccepted ==
    [](BothReadBeforeEitherWrite(1, 2) => []~BothWritesAccepted(1, 2))

(***************************************************************************)
(* C14, amended: a write is accepted only while what its submission read   *)
(* still describes the stored file, and a write handled after that stopped *)
(* being so (another write changed the content) is rejected and stores     *)
(* nothing; a write that is rejected as stale carried a handle that no     *)
(* longer names the content.  The submission of a rejected write answers   *)
(* with a failure and issues no dispatch.  The handle its write carries is *)
(* the one it read itself.                                                 *)
(***************************************************************************)
\* the provider handles the write of q in this step
WriteHandled(q) ==
    /\ HasCall(q, 2)
    /\ ~Settled(calls[q][2])
    /\ Settled(calls'[q][2])

\* what q read is what a read would return now
ReadIsCurrent(q) == ReadReply(file) = calls[q][1].result

RejectedAsStale(q) == HasCall(q, 2) /\ calls[q][2].result.status \in {409, 422}

WriteHandledByHandle ==
    \A q \in Reqs :
        WriteHandled(q) =>
            /\ Succeeded(q, 2)' => ReadIsCurrent(q)
            /\ RejectedAsStale(q)' => ~ReadIsCurrent(q)
            /\ ~ReadIsCurrent(q) => Failed(q, 2)' /\ file' = file
            /\ Failed(q, 2)' => file' = file
            /\ \A r \in Reqs \ {q} :
                (SameRead(r, q) /\ Succeeded(r, 2) /\ ~ReadIsCurrent(r)) =>
                    Failed(q, 2)' /\ file' = file

\* the handle that the write of q carries is the one q read, none when q
\* read not-found; a submission whose write failed issued nothing after it
\* and, once finished, is answered with one failure
RejectedWriteEndsSubmission ==
    \A q \in Reqs :
        /\ HasCall(q, 2) =>
            calls[q][2].params.sha =
                IF calls[q][1].result.status = 200 THEN calls[q][1].result.sha
                ELSE JSUndefined
        /\ (HasCall(q, 2) /\ Failed(q, 2)) =>
            /\ Len(calls[q]) = 2
            /\ Done(q) => (Len(responses[q]) = 1 /\ IsFailure(responses[q][1]))

C14_StaleWriteRejected ==
    [][WriteHandledByHandle /\ RejectedWriteEndsSubmission']_vars

C14_Witness ==
    \E r, q \in Reqs :
        /\ r # q
        /\ SameRead(r, q)
        /\ calls[r][1].result.status = 200
        /\ Succeeded(r, 2)
        /\ HasCall(q, 2)
        /\ calls[q][2].result.status = 409
        /\ Done(q)
        /\ ~Succeeded(q, 2)
        /\ fileContent[q] # fileContent[r]
        /\ file = FileOf(Utf8Encode(fileContent[r]))

(***************************************************************************)
(* C15: the response of a submission is a success exactly when the         *)
(* submission issued one write, which the provider accepted, and after it  *)
(* one dispatch, which the provider accepted; on every other path it is a  *)
(* failure.                                                                *)
(***************************************************************************)
CallsOf(r, op) == {i \in 1..Len(calls[r]) : calls[r][i].op = op}

OneWriteThenOneDispatchAccepted(r) ==
    \E w, d \in 1..Len(calls[r]) :
        /\ CallsOf(r, "createOrUpdateFileContents") = {w}
        /\ CallsOf(r, "createWorkflowDispatch") = {d}
        /\ w < d
        /\ Succeeded(r, w)
        /\ Succeeded(r, d)

IsSuccess(response) ==
    /\ response.status = 200
    /\ response.error = <<>>
    /\ response.message = <<"Repository updated and workflow dispatched.">>

C15_SuccessIffWriteAndDispatch ==
    \A r \in Reqs :
        Done(r) =>
            /\ Len(responses[r]) = 1
            /\ IsSuccess(responses[r][1]) <=> OneWriteThenOneDispatchAccepted(r)
            /\ IsFailure(responses[r][1]) <=> ~OneWriteThenOneDispatchAccepted(r)

C15_Witness ==
    \E r, q \in Reqs :
        /\ Done(r)
        /\ Done(q)
        /\ OneWriteThenOneDispatchAccepted(r)
        /\ IsSuccess(responses[r][1])
        /\ Succeeded(q, 2)
        /\ Failed(q, 3)
        /\ IsFailure(responses[q][1])

(***************************************************************************)
(* C16: when every call that is issued returns, every submission gets      *)
(* exactly one response: none is answered twice, none is left without an   *)
(* answer, and an error thrown at the read, the write or the dispatch is   *)
(* turned into a failure response.                                         *)
(***************************************************************************)
\* the call i of r was answered with an error that its await throws out of
\* the handler's try: any at the write and the dispatch, any but not-found at
\* the read
ThrewAt(r, i) ==
    /\ Failed(r, i)
    /\ calls[r][i].op = "getContent" => calls[r][i].result.status # 404

AnsweredFailure(r) == Done(r) /\ Len(responses[r]) = 1 /\ IsFailure(responses[r][1])

\* no submission is answered twice, and a submission that is finished after
\* an error was thrown at one of its calls is answered with a failure
OneResponseAtMost ==
    \A r \in Reqs :
        /\ Len(responses[r]) = IF Done(r) THEN 1 ELSE 0
        /\ \A i \in 1..3 : (Done(r) /\ ThrewAt(r, i)) => AnsweredFailure(r)

\* a submission stays made, and a finished one keeps its response
AnswerIsFinal ==
    \A r \in Reqs :
        /\ Submitted(r) => Submitted(r)'
        /\ Done(r) => (Done(r)' /\ responses'[r] = responses[r])

\* every submission made so far has its one response
AllAnswered == \A r \in Reqs : Submitted(r) => (Done(r) /\ Len(responses[r]) = 1)

\* a submission, once made, stays made: that all those made are answered
\* again and again is that each is answered, from then on
C16_ExactlyOneResponse ==
    /\ []OneResponseAtMost
    /\ [][AnswerIsFinal]_vars
    /\ []<>AllAnswered

C16_Witness ==
    \E r, q \in Reqs :
        /\ Done(r)
        /\ Len(responses[r]) = 1
        /\ ThrewAt(r, 1)
        /\ AnsweredFailure(r)
        /\ ThrewAt(q, 3)
        /\ AnsweredFailure(q)

=============================================================================
